---- MODULE Spec2Model ----
(***************************************************************************)
(* Model of closure_ground (src/src/main.rs): enumeration of the           *)
(* non-decreasing integer sequences of length n over [min_scale,           *)
(* max_scale] whose mean and sample standard deviation lie in a target     *)
(* window, by a pruned depth-first search (dfs_branch) fanned out over     *)
(* the length-2 seeds by a parallel coordinator (parallel_dfs).            *)
(*                                                                         *)
(* Arithmetic.  The program computes in f64.  The model computes the same  *)
(* expressions exactly, in fixed point: a real run parameter r is the      *)
(* integer r * Den, running_sum (always integer valued) is an integer,     *)
(* and running_m2 is the integer running_m2 * M2Den, where M2Den is a      *)
(* common multiple of every divisor k*(k+1) the update of line 84 uses.    *)
(* sqrt is never evaluated: sqrt(a) >= b and sqrt(a) > b are decided by    *)
(* comparing a with b*b (and the sign of b).                               *)
(*                                                                         *)
(* Specifications.  Spec is the whole run of main: the main thread of      *)
(* parallel_dfs, the workers of par_iter().for_each, the sink and its      *)
(* I/O failures; a worker runs dfs_branch (a pure function) in one step.   *)
(* SpecDfs runs dfs_branch pop by pop on every seed in turn.  SpecCount    *)
(* is the run up to the parallel phase over a wide range of scales.        *)
(***************************************************************************)
EXTENDS Integers, Sequences, FiniteSets, TLC

\* ------------------------------------------------------------------ bounds
MaxN == 5
MaxScale == 3
Den == 2

\* ------------------------------------------------------- generic helpers
RECURSIVE Gcd(_, _)
Gcd(a, b) == IF b = 0 THEN a ELSE Gcd(b, a % b)

Lcm(a, b) == (a * b) \div Gcd(a, b)

RECURSIVE LcmUpTo(_)
LcmUpTo(k) == IF k <= 1 THEN 1 ELSE Lcm(LcmUpTo(k - 1), k)

\* scale of running_m2: every k*(k+1), k < MaxN + 1, and 4 divide it
M2Den == 2 * LcmUpTo(MaxN + 2)

RECURSIVE SeqSum(_)
SeqSum(s) == IF s = <<>> THEN 0 ELSE s[1] + SeqSum(Tail(s))

Range(s) == {s[k] : k \in 1..Len(s)}

Last(s) == s[Len(s)]

\* ------------------------------------------------------------------ state
VARIABLES
    \* run parameters of parallel_dfs (fixed after Init)
    min_scale, max_scale, n,
    target_sum, target_sd, rounding_error_sums, rounding_error_sds,
    \* partitioner
    initial_count, initial_combinations,
    \* one branch search (dfs_branch)
    stack, results,
    \* sequential driver of the branch searches
    dpc, branch, out,
    \* main thread of the run (main, parallel_dfs) and the progress bar
    pc, bar, bar_len, count,
    \* the sink: the file, the header writer's buffer, the shared writer's
    \* buffer, the mutex around the shared writer
    file, hbuf, wbuf, lock, poisoned,
    \* the parallel iterator: seeds not yet taken (indices into
    \* initial_combinations), the workers' closures,
    \* the seeds whose closure panicked
    pending, wk, aborted,
    \* history: an I/O operation has failed
    io_failed

pvars == <<min_scale, max_scale, n, target_sum, target_sd,
           rounding_error_sums, rounding_error_sds>>
svars == <<stack, results>>
dvars == <<dpc, branch, out>>
cvars == <<initial_count, initial_combinations>>
mvars == <<pc, bar, bar_len, count>>
fvars == <<file, hbuf, wbuf, lock, poisoned>>
wvars == <<pending, wk, aborted>>
vars == <<pvars, cvars, svars, dvars, mvars, fvars, wvars, io_failed>>

\* --------------------------------------------- derived values (l.119-133)
target_sum_upper == target_sum + rounding_error_sums
target_sum_lower == target_sum - rounding_error_sums
target_sd_upper == target_sd + rounding_error_sds
target_sd_lower == target_sd - rounding_error_sds

min_scale_sum == [x \in 0..(n - 1) |-> min_scale * x]
max_scale_sum == [x \in 0..(n - 1) |-> max_scale * x]

\* (mutant) n_1 computed without the subtraction
NWithoutMinusOne == n

n_1 == n - 1
max_scale_1 == max_scale + 1

\* ------------------------------------------------------ real comparisons
\* sqrt(m2 / d) >= b, for m2 scaled by M2Den and b scaled by Den
SqrtGe(m2, d, b) == b <= 0 \/ m2 * Den * Den >= b * b * M2Den * d

\* (mutant) the comparison of line 88 written >= instead of >
SqrtGtOrEqual(m2, d, b) == b <= 0 \/ m2 * Den * Den >= b * b * M2Den * d

\* sqrt(m2 / d) > b
SqrtGt(m2, d, b) == b < 0 \/ m2 * Den * Den > b * b * M2Den * d

\* ------------------------------------------------------------ partitioner
\* (mutant) pairs without repetition
CountDistinctPairs(lo, hi) ==
    LET range_size == hi - lo + 1
    IN  (range_size * (range_size - 1)) \div 2

count_initial_combinations(lo, hi) ==
    LET range_size == hi - lo + 1
    IN  (range_size * (range_size + 1)) \div 2

\* the seed [i, j] with its running statistics (l.139-144)
Seed(i, j) ==
    LET running_sum == i + j
        \* current_mean = running_sum / 2:  x - current_mean = (2x - sum) / 2
        di == 2 * i - running_sum
        dj == 2 * j - running_sum
        current_m2 == ((di * di + dj * dj) * M2Den) \div 4
    IN  [values |-> <<i, j>>, running_sum |-> running_sum, running_m2 |-> current_m2]

RECURSIVE InnerLoop(_, _, _)
InnerLoop(i, j, hi) ==
    IF j > hi THEN <<>> ELSE <<Seed(i, j)>> \o InnerLoop(i, j + 1, hi)

RECURSIVE OuterLoop(_, _)
OuterLoop(i, hi) ==
    IF i > hi THEN <<>> ELSE InnerLoop(i, i, hi) \o OuterLoop(i + 1, hi)

InitialCombinations(lo, hi) == OuterLoop(lo, hi)

\* --------------------------------------------------------- dfs_branch
\* terminal check of a popped state of full length (l.53-59)
Terminal(current, res) ==
    IF SqrtGe(current.running_m2, n_1, target_sd_lower)
    THEN Append(res, current.values)
    ELSE res

\* (mutant) the update computed with delta * delta
NextM2DeltaSquared(current, next_value) ==
    LET len == Len(current.values)
        delta == len * next_value - current.running_sum
    IN  current.running_m2 + (delta * delta * M2Den) \div (len * len)

\* (mutant) the increment subtracted
NextM2Minus(current, next_value) ==
    LET len == Len(current.values)
        next_n == len + 1
        next_sum == current.running_sum + next_value
        delta == len * next_value - current.running_sum
        delta2 == next_n * next_value - next_sum
    IN  current.running_m2 - (delta * delta2 * M2Den) \div (len * next_n)

\* the incremental update of M2 (l.81-84)
NextM2(current, next_value) ==
    LET len == Len(current.values)
        next_n == len + 1
        next_sum == current.running_sum + next_value
        \* delta = next_value - running_sum / len          (over len)
        delta == len * next_value - current.running_sum
        \* delta2 = next_value - next_sum / next_n         (over next_n)
        delta2 == next_n * next_value - next_sum
    IN  current.running_m2 + (delta * delta2 * M2Den) \div (len * next_n)

\* the candidate loop (l.67-100) from next_value on; st is the stack so far
RECURSIVE Extend(_, _, _)
Extend(current, next_value, st) ==
    IF next_value >= max_scale_1 THEN st
    ELSE
      LET len == Len(current.values)
          n_left == n_1 - len
          next_n == len + 1
          next_sum == current.running_sum + next_value
          minmean == next_sum + min_scale_sum[n_left]
          maxmean == next_sum + max_scale_sum[n_left]
          next_m2 == NextM2(current, next_value)
      IN  IF minmean * Den > target_sum_upper THEN st                  \* break
          ELSE IF maxmean * Den < target_sum_lower
               THEN Extend(current, next_value + 1, st)              \* continue
          ELSE IF SqrtGt(next_m2, n_1, target_sd_upper)
               THEN Extend(current, next_value + 1, st)              \* continue
          ELSE Extend(current, next_value + 1,
                      Append(st, [values |-> Append(current.values, next_value),
                                  running_sum |-> next_sum,
                                  running_m2 |-> next_m2]))

\* (mutant) the candidate loop started at min_scale instead of last_value
PopStepFromMinScale(st, res) ==
    LET current == Last(st)
        rest == SubSeq(st, 1, Len(st) - 1)
    IN  IF Len(current.values) >= n
        THEN [stack |-> rest, results |-> Terminal(current, res)]
        ELSE [stack |-> Extend(current, min_scale, rest), results |-> res]

\* (mutant) the popped state is read with back() and left on the stack
PopStepWithoutPop(st, res) ==
    LET current == Last(st)
    IN  IF Len(current.values) >= n
        THEN [stack |-> st, results |-> res]
        ELSE [stack |-> Extend(current, Last(current.values), st),
              results |-> res]

\* (mutant) the candidates pushed in decreasing order
PopStepReversed(st, res) ==
    LET current == Last(st)
        rest == SubSeq(st, 1, Len(st) - 1)
        pushed == Extend(current, Last(current.values), <<>>)
    IN  IF Len(current.values) >= n
        THEN [stack |-> rest, results |-> Terminal(current, res)]
        ELSE [stack |-> rest \o [i \in 1..Len(pushed) |-> pushed[Len(pushed) + 1 - i]],
              results |-> res]

\* one iteration of the while loop (l.51-101): pop, then accept or extend
PopStep(st, res) ==
    LET current == Last(st)
        rest == SubSeq(st, 1, Len(st) - 1)
    IN  IF Len(current.values) >= n
        THEN [stack |-> rest, results |-> Terminal(current, res)]
        ELSE [stack |-> Extend(current, Last(current.values), rest),
              results |-> res]

\* the while loop from a loop state s = [stack, results] to the empty stack
\* (the next loop state t is bound as the element of a singleton set, so
\* that it is evaluated once per iteration)
RECURSIVE RunState(_)
RunState(s) ==
    IF s.stack = <<>> THEN s.results
    ELSE CHOOSE r \in {RunState(t) : t \in {PopStep(s.stack, s.results)}} : TRUE

RunStack(st, res) == RunState([stack |-> st, results |-> res])

\* dfs_branch applied to a seed of the partitioner (l.41-104)
dfs_branch(seed) == RunStack(<<seed>>, <<>>)

\* ------------------------------------------------------------ the sink
NWorkers == 2
BufCap == 1

Workers == 1..NWorkers

Digit == <<"0", "1", "2", "3", "4", "5", "6", "7", "8", "9">>

\* x.to_string() / format!("{}", x) of an integer
RECURSIVE to_string(_)
to_string(x) ==
    IF x < 0 THEN "-" \o to_string(0 - x)
    ELSE IF x < 10 THEN Digit[x + 1]
    ELSE to_string(x \div 10) \o Digit[(x % 10) + 1]

\* the record written for one result (l.207-210)
Row(values) == [k \in 1..Len(values) |-> to_string(values[k])]

\* the header record n1..nN (l.155-157)
Header == [i \in 1..n |-> "n" \o to_string(i)]

Idle == [pc |-> "idle", branch |-> 0, results |-> <<>>]

\* the state of the run before main starts; at is the main thread's position
InitRun(at) ==
    /\ pc = at
    /\ bar = 0
    /\ bar_len = 0
    /\ count = <<>>
    /\ hbuf = <<>>
    /\ wbuf = <<>>
    /\ lock = {}
    /\ poisoned = FALSE
    /\ pending = {}
    /\ wk = [w \in Workers |-> Idle]
    /\ aborted = {}
    /\ io_failed = FALSE

\* ------------------------------------------------ sequential search spec
TargetMeans == {2, 3, 4, 5}
RoundingErrorSums == {0, 1, 3}
TargetSds == {0, 1, 2}
RoundingErrorSds == {0, 1}

InitParams(maxn, maxscale) ==
    /\ n \in 2..maxn
    /\ min_scale \in 1..maxscale
    /\ max_scale \in min_scale..maxscale
    /\ \E tm \in TargetMeans : target_sum = tm * n
    /\ rounding_error_sums \in RoundingErrorSums
    /\ target_sd \in TargetSds
    /\ rounding_error_sds \in RoundingErrorSds

InitDfs ==
    /\ InitParams(MaxN, MaxScale)
    /\ initial_count = count_initial_combinations(min_scale, max_scale)
    /\ initial_combinations = InitialCombinations(min_scale, max_scale)
    /\ stack = <<>>
    /\ results = <<>>
    /\ dpc = "next"
    /\ branch = 1
    /\ out = <<>>
    /\ InitRun("dfs")
    /\ file = <<>>

\* call dfs_branch on the next seed: push it on an empty stack (l.41-49)
DfsStart ==
    /\ dpc = "next"
    /\ branch <= Len(initial_combinations)
    /\ stack' = <<initial_combinations[branch]>>
    /\ results' = <<>>
    /\ dpc' = "search"
    /\ UNCHANGED <<pvars, cvars, branch, out>>
    /\ UNCHANGED <<mvars, fvars, wvars, io_failed>>

\* pop a state of full length: accept or discard it
DfsAccept ==
    /\ dpc = "search"
    /\ stack # <<>>
    /\ Len(Last(stack).values) >= n
    /\ LET s == PopStep(stack, results)
       IN  stack' = s.stack /\ results' = s.results
    /\ UNCHANGED <<pvars, cvars, dvars>>
    /\ UNCHANGED <<mvars, fvars, wvars, io_failed>>

\* pop a shorter state: push its surviving children
DfsExtend ==
    /\ dpc = "search"
    /\ stack # <<>>
    /\ Len(Last(stack).values) < n
    /\ LET s == PopStep(stack, results)
       IN  stack' = s.stack /\ results' = s.results
    /\ UNCHANGED <<pvars, cvars, dvars>>
    /\ UNCHANGED <<mvars, fvars, wvars, io_failed>>

\* the stack is empty: dfs_branch returns its results (l.103)
DfsReturn ==
    /\ dpc = "search"
    /\ stack = <<>>
    /\ out' = out \o results
    /\ branch' = branch + 1
    /\ dpc' = IF branch + 1 > Len(initial_combinations) THEN "done" ELSE "next"
    /\ UNCHANGED <<pvars, cvars, svars>>
    /\ UNCHANGED <<mvars, fvars, wvars, io_failed>>

NextDfs == DfsStart \/ DfsAccept \/ DfsExtend \/ DfsReturn

SpecDfs == InitDfs /\ [][NextDfs]_vars

\* the search is a sequential loop: it takes its next step whenever it has one
SpecDfsFair == SpecDfs /\ WF_vars(NextDfs)

\* ------------------------------------------------- the run (main thread)
\* main calls count_initial_combinations and prints it (l.249-250)
MainCount ==
    /\ pc = "main"
    /\ initial_count' = count_initial_combinations(min_scale, max_scale)
    /\ pc' = "partition"
    /\ UNCHANGED <<pvars, initial_combinations, svars, dvars, bar, bar_len, count>>
    /\ UNCHANGED <<fvars, wvars, io_failed>>

\* parallel_dfs: window, bound tables and the seeds (l.116-146)
Partition ==
    /\ pc = "partition"
    /\ initial_combinations' = InitialCombinations(min_scale, max_scale)
    /\ pending' = 1..Len(initial_combinations')
    /\ pc' = "create"
    /\ UNCHANGED <<pvars, initial_count, svars, dvars, bar, bar_len, count>>
    /\ UNCHANGED <<fvars, wk, aborted, io_failed>>

\* (mutant) the file opened without truncation
CreateFileNoTruncate ==
    /\ pc = "create"
    /\ \/ file' = file /\ pc' = "header" /\ UNCHANGED io_failed
       \/ pc' = "err" /\ io_failed' = TRUE /\ UNCHANGED file
    /\ UNCHANGED <<pvars, cvars, svars, dvars, bar, bar_len, count>>
    /\ UNCHANGED <<hbuf, wbuf, lock, poisoned, wvars>>

\* File::create(output_file)?: truncates the file, or the error is returned
CreateFile ==
    /\ pc = "create"
    /\ \/ file' = <<>> /\ pc' = "header" /\ UNCHANGED io_failed
       \/ pc' = "err" /\ io_failed' = TRUE /\ UNCHANGED file
    /\ UNCHANGED <<pvars, cvars, svars, dvars, bar, bar_len, count>>
    /\ UNCHANGED <<hbuf, wbuf, lock, poisoned, wvars>>

\* writer.write_record(&header)?: the record goes to the writer's buffer
WriteHeader ==
    /\ pc = "header"
    /\ \/ hbuf' = Append(hbuf, Header) /\ pc' = "hflush" /\ UNCHANGED io_failed
       \/ pc' = "err" /\ io_failed' = TRUE /\ UNCHANGED hbuf
    /\ UNCHANGED <<pvars, cvars, svars, dvars, bar, bar_len, count>>
    /\ UNCHANGED <<file, wbuf, lock, poisoned, wvars>>

\* writer.flush()? (l.159)
FlushHeader ==
    /\ pc = "hflush"
    /\ \/ file' = file \o hbuf /\ hbuf' = <<>> /\ pc' = "bar" /\ UNCHANGED io_failed
       \/ pc' = "err" /\ io_failed' = TRUE /\ UNCHANGED <<file, hbuf>>
    /\ UNCHANGED <<pvars, cvars, svars, dvars, bar, bar_len, count>>
    /\ UNCHANGED <<wbuf, lock, poisoned, wvars>>

\* ProgressBar::new(initial_combinations.len()) (l.162-168)
MakeBar ==
    /\ pc = "bar"
    /\ bar_len' = Len(initial_combinations)
    /\ bar' = 0
    /\ pc' = "open"
    /\ UNCHANGED <<pvars, cvars, svars, dvars, count, fvars, wvars, io_failed>>

\* the shared appending writer (l.171-180); then par_iter starts
OpenAppend ==
    /\ pc = "open"
    /\ \/ pc' = "par" /\ UNCHANGED io_failed
       \/ pc' = "err" /\ io_failed' = TRUE
    /\ UNCHANGED <<pvars, cvars, svars, dvars, bar, bar_len, count>>
    /\ UNCHANGED <<fvars, wvars>>

\* ------------------------------------------- the closure of for_each
\* (mutant) the if of l.202 dropped: the writer is locked for every batch
SearchAlwaysLocks(w) ==
    /\ pc = "par"
    /\ wk[w].pc = "idle"
    /\ \E b \in pending :
          LET r == dfs_branch(initial_combinations[b])
          IN  /\ pending' = pending \ {b}
              /\ wk' = [wk EXCEPT ![w] =
                          [pc |-> "lock", branch |-> b, results |-> r]]
    /\ UNCHANGED <<pvars, cvars, svars, dvars, mvars, fvars, aborted, io_failed>>

\* a worker takes a seed and runs dfs_branch on it (l.185-202)
Search(w) ==
    /\ pc = "par"
    /\ wk[w].pc = "idle"
    /\ \E b \in pending :
          LET r == dfs_branch(initial_combinations[b])
          IN  /\ pending' = pending \ {b}
              /\ wk' = [wk EXCEPT ![w] =
                          [pc |-> IF r = <<>> THEN "inc" ELSE "lock",
                           branch |-> b, results |-> r]]
    /\ UNCHANGED <<pvars, cvars, svars, dvars, mvars, fvars, aborted, io_failed>>

\* (mutant) the writer taken without waiting for the mutex
LockWithoutExclusion(w) ==
    /\ wk[w].pc = "lock"
    /\ lock' = lock \cup {w}
    /\ wk' = [wk EXCEPT ![w].pc = "write"]
    /\ UNCHANGED <<pvars, cvars, svars, dvars, mvars, file, hbuf, wbuf, poisoned>>
    /\ UNCHANGED <<pending, aborted, io_failed>>

\* writer.lock().unwrap() (l.203): waits for the mutex; a poisoned mutex
\* makes unwrap panic
Lock(w) ==
    /\ wk[w].pc = "lock"
    /\ lock = {}
    /\ IF poisoned
       THEN /\ wk' = [wk EXCEPT ![w] = Idle]
            /\ aborted' = aborted \cup {wk[w].branch}
            /\ UNCHANGED lock
       ELSE /\ lock' = {w}
            /\ wk' = [wk EXCEPT ![w].pc = "write"]
            /\ UNCHANGED aborted
    /\ UNCHANGED <<pvars, cvars, svars, dvars, mvars, file, hbuf, wbuf, poisoned>>
    /\ UNCHANGED <<pending, io_failed>>

\* (mutant) the mutex is left locked when the closure unwinds
PanicKeepsLock(w) ==
    /\ io_failed' = TRUE
    /\ lock' = lock
    /\ poisoned' = TRUE
    /\ wk' = [wk EXCEPT ![w] = Idle]
    /\ aborted' = aborted \cup {wk[w].branch}

\* unwrap() panics on an I/O error while the guard is held: the guard is
\* dropped on unwinding, which frees and poisons the mutex
PanicInLock(w) ==
    /\ io_failed' = TRUE
    /\ lock' = lock \ {w}
    /\ poisoned' = TRUE
    /\ wk' = [wk EXCEPT ![w] = Idle]
    /\ aborted' = aborted \cup {wk[w].branch}

\* writer.write_record(..).unwrap() for the next result (l.204-213): the
\* record goes to the writer's buffer, which is written out first when full
WriteRecord(w) ==
    /\ wk[w].pc = "write"
    /\ wk[w].results # <<>>
    /\ LET row == Row(Head(wk[w].results))
           rest == Tail(wk[w].results)
           after == [wk EXCEPT ![w].results = rest,
                               ![w].pc = IF rest = <<>> THEN "flush" ELSE "write"]
       IN  \/ /\ Len(wbuf) < BufCap
              /\ wbuf' = Append(wbuf, row)
              /\ wk' = after
              /\ UNCHANGED <<file, lock, poisoned, aborted, io_failed>>
           \/ /\ Len(wbuf) >= BufCap
              /\ file' = file \o wbuf
              /\ wbuf' = <<row>>
              /\ wk' = after
              /\ UNCHANGED <<lock, poisoned, aborted, io_failed>>
           \/ /\ Len(wbuf) >= BufCap
              /\ PanicInLock(w)
              /\ UNCHANGED <<file, wbuf>>
    /\ UNCHANGED <<pvars, cvars, svars, dvars, mvars, hbuf, pending>>

\* (mutant) the guard is not dropped after the flush
FlushKeepsGuard(w) ==
    /\ wk[w].pc = "flush"
    /\ \/ /\ file' = file \o wbuf
          /\ wbuf' = <<>>
          /\ wk' = [wk EXCEPT ![w].pc = "inc"]
          /\ UNCHANGED <<lock, poisoned, aborted, io_failed>>
       \/ /\ PanicInLock(w)
          /\ UNCHANGED <<file, wbuf>>
    /\ UNCHANGED <<pvars, cvars, svars, dvars, mvars, hbuf, pending>>

\* (mutant) the writer's buffer is not cleared after it was written out
FlushWithoutClear(w) ==
    /\ wk[w].pc = "flush"
    /\ \/ /\ file' = file \o wbuf
          /\ lock' = lock \ {w}
          /\ wk' = [wk EXCEPT ![w].pc = "inc"]
          /\ UNCHANGED <<wbuf, poisoned, aborted, io_failed>>
       \/ /\ PanicInLock(w)
          /\ UNCHANGED <<file, wbuf>>
    /\ UNCHANGED <<pvars, cvars, svars, dvars, mvars, hbuf, pending>>

\* writer.flush().unwrap(), then the guard is dropped (l.214-215)
Flush(w) ==
    /\ wk[w].pc = "flush"
    /\ \/ /\ file' = file \o wbuf
          /\ wbuf' = <<>>
          /\ lock' = lock \ {w}
          /\ wk' = [wk EXCEPT ![w].pc = "inc"]
          /\ UNCHANGED <<poisoned, aborted, io_failed>>
       \/ /\ PanicInLock(w)
          /\ UNCHANGED <<file, wbuf>>
    /\ UNCHANGED <<pvars, cvars, svars, dvars, mvars, hbuf, pending>>

\* (mutant) bar.inc(1) moved inside the if of l.202
BarIncIfNotEmpty(w) ==
    /\ wk[w].pc = "inc"
    /\ bar' = IF dfs_branch(initial_combinations[wk[w].branch]) = <<>>
              THEN bar ELSE bar + 1
    /\ wk' = [wk EXCEPT ![w] = Idle]
    /\ UNCHANGED <<pvars, cvars, svars, dvars, pc, bar_len, count, fvars>>
    /\ UNCHANGED <<pending, aborted, io_failed>>

\* bar.inc(1) (l.216): an atomic add; the closure returns
BarInc(w) ==
    /\ wk[w].pc = "inc"
    /\ bar' = bar + 1
    /\ wk' = [wk EXCEPT ![w] = Idle]
    /\ UNCHANGED <<pvars, cvars, svars, dvars, pc, bar_len, count, fvars>>
    /\ UNCHANGED <<pending, aborted, io_failed>>

\* (mutant) for_each returns without waiting for the seeds not yet taken
JoinEarly ==
    /\ pc = "par"
    /\ \A w \in Workers : wk[w].pc = "idle"
    /\ \/ aborted = {} /\ pc' = "reopen"
       \/ aborted # {} /\ pc' = "panic"
    /\ UNCHANGED <<pvars, cvars, svars, dvars, bar, bar_len, count>>
    /\ UNCHANGED <<fvars, wvars, io_failed>>

\* for_each returns when every seed was processed, or resumes the panic of
\* a closure once no closure is running; bar.finish, elapsed time (l.217-223)
Join ==
    /\ pc = "par"
    /\ \A w \in Workers : wk[w].pc = "idle"
    /\ \/ aborted = {} /\ pending = {} /\ pc' = "reopen"
       \/ aborted # {} /\ pc' = "panic"
    /\ UNCHANGED <<pvars, cvars, svars, dvars, bar, bar_len, count>>
    /\ UNCHANGED <<fvars, wvars, io_failed>>

\* File::open(output_file)? (l.226)
OpenRead ==
    /\ pc = "reopen"
    /\ \/ pc' = "read" /\ UNCHANGED io_failed
       \/ pc' = "err" /\ io_failed' = TRUE
    /\ UNCHANGED <<pvars, cvars, svars, dvars, bar, bar_len, count>>
    /\ UNCHANGED <<fvars, wvars>>

\* the records after the header record
DataRows(f) == IF f = <<>> THEN <<>> ELSE Tail(f)

\* reader.into_records().count(), println, Ok(()) (l.227-233): the iterator
\* yields Result items and count() counts them all; a read error after k
\* records is one more item, after which the iterator ends or goes on
ReadBack ==
    /\ pc = "read"
    /\ \/ /\ count' = <<Len(DataRows(file))>>
          /\ UNCHANGED io_failed
       \/ /\ \E k \in 0..Len(DataRows(file)) : \E more \in 0..(Len(DataRows(file)) - k) :
                count' = <<k + 1 + more>>
          /\ io_failed' = TRUE
    /\ pc' = "done"
    /\ UNCHANGED <<pvars, cvars, svars, dvars, bar, bar_len, fvars, wvars>>

\* the parallel phase is explored for sequence lengths 2..ParMaxN and the
\* scales of ParScales (at most three seeds for NWorkers workers)
ParMaxN == 3
ParScales == {<<1, 1>>, <<1, 2>>, <<2, 2>>}
StaleRow == <<"stale">>

\* the state before main runs, but for the parameters
InitMain ==
    /\ initial_count = 0
    /\ initial_combinations = <<>>
    /\ stack = <<>>
    /\ results = <<>>
    /\ dpc = "off"
    /\ branch = 0
    /\ out = <<>>
    /\ InitRun("main")
    /\ file \in {<<>>, <<StaleRow, StaleRow>>}

Init ==
    /\ n \in 2..ParMaxN
    /\ \E sc \in ParScales : min_scale = sc[1] /\ max_scale = sc[2]
    /\ \E tm \in {2, 3} : target_sum = tm * n
    /\ rounding_error_sums \in {0, 3}
    /\ target_sd \in {0, 1}
    /\ rounding_error_sds \in {0, 1}
    /\ InitMain

Next ==
    \/ MainCount
    \/ Partition
    \/ CreateFile
    \/ WriteHeader
    \/ FlushHeader
    \/ MakeBar
    \/ OpenAppend
    \/ \E w \in Workers : Search(w)
    \/ \E w \in Workers : Lock(w)
    \/ \E w \in Workers : WriteRecord(w)
    \/ \E w \in Workers : Flush(w)
    \/ \E w \in Workers : BarInc(w)
    \/ Join
    \/ OpenRead
    \/ ReadBack

Spec == Init /\ [][Next]_vars

\* the steps of the main thread and of one worker thread
MainNext ==
    \/ MainCount \/ Partition \/ CreateFile \/ WriteHeader \/ FlushHeader
    \/ MakeBar \/ OpenAppend \/ Join \/ OpenRead \/ ReadBack

WorkerNext(w) == Search(w) \/ Lock(w) \/ WriteRecord(w) \/ Flush(w) \/ BarInc(w)

\* a step in which no I/O operation fails
NoFailure == io_failed' = FALSE

\* the runs without I/O failure in which every thread that can run is
\* eventually scheduled
NextNoFailure ==
    \/ MainCount /\ NoFailure
    \/ Partition /\ NoFailure
    \/ CreateFile /\ NoFailure
    \/ WriteHeader /\ NoFailure
    \/ FlushHeader /\ NoFailure
    \/ MakeBar /\ NoFailure
    \/ OpenAppend /\ NoFailure
    \/ \E w \in Workers : Search(w) /\ NoFailure
    \/ \E w \in Workers : Lock(w) /\ NoFailure
    \/ \E w \in Workers : WriteRecord(w) /\ NoFailure
    \/ \E w \in Workers : Flush(w) /\ NoFailure
    \/ \E w \in Workers : BarInc(w) /\ NoFailure
    \/ Join /\ NoFailure
    \/ OpenRead /\ NoFailure
    \/ ReadBack /\ NoFailure

SpecFair ==
    /\ Init
    /\ [][NextNoFailure]_vars
    /\ WF_vars(MainNext /\ NoFailure)
    /\ \A w \in Workers : WF_vars(WorkerNext(w) /\ NoFailure)

\* --------------------------------- the run up to the parallel phase, for
\* every scale within 1..CountMaxScale
CountMaxScale == 8

InitCount ==
    /\ n \in 2..ParMaxN
    /\ min_scale \in 1..CountMaxScale
    /\ max_scale \in min_scale..CountMaxScale
    /\ target_sum = 3 * n
    /\ rounding_error_sums = 0
    /\ target_sd = 1
    /\ rounding_error_sds = 0
    /\ InitMain

NextCount ==
    \/ MainCount
    \/ Partition
    \/ CreateFile
    \/ WriteHeader
    \/ FlushHeader
    \/ MakeBar

SpecCount == InitCount /\ [][NextCount]_vars

\* ----------------------------------------------- reference definitions
\* the statistics of a sequence computed directly (two passes)
\* SumSqDev(s) = Len(s)^2 * (sum of the squared deviations from the mean)
RECURSIVE SumSqDevFrom(_, _, _)
SumSqDevFrom(s, k, total) ==
    IF s = <<>> THEN 0
    ELSE (k * s[1] - total) * (k * s[1] - total) + SumSqDevFrom(Tail(s), k, total)

SumSqDev(s) == SumSqDevFrom(s, Len(s), SeqSum(s))

\* target_sum_lower <= sum(s) <= target_sum_upper
InSumWindow(s) ==
    /\ target_sum_lower <= SeqSum(s) * Den
    /\ SeqSum(s) * Den <= target_sum_upper

\* target_sd_lower <= sqrt(M2(s) / (n - 1)) <= target_sd_upper
InSdWindow(s) ==
    LET q == SumSqDev(s) * Den * Den
        d == Len(s) * Len(s) * (n - 1)
    IN  /\ target_sd_lower <= 0 \/ q >= target_sd_lower * target_sd_lower * d
        /\ target_sd_upper >= 0 /\ q <= target_sd_upper * target_sd_upper * d

NonDecreasing(s) == \A k \in 1..(Len(s) - 1) : s[k] <= s[k + 1]

InScale(s) == \A k \in 1..Len(s) : min_scale <= s[k] /\ s[k] <= max_scale

\* every non-decreasing sequence of length len over lo..hi
RECURSIVE NonDecSeqs(_, _, _)
NonDecSeqs(len, lo, hi) ==
    IF len = 0 THEN {<<>>}
    ELSE UNION {{<<v>> \o t : t \in NonDecSeqs(len - 1, v, hi)} : v \in lo..hi}

BruteForce ==
    {s \in NonDecSeqs(n, min_scale, max_scale) : InSumWindow(s) /\ InSdWindow(s)}

\* ------------------------------------------------------------ claims

\* C1: every sequence dfs_branch returns lies in both windows:
\* target_sum_lower <= sum <= target_sum_upper and
\* target_sd_lower <= sqrt(M2 / (n-1)) <= target_sd_upper.
C1_AcceptedInWindow ==
    \A s \in Range(results) \cup Range(out) : InSumWindow(s) /\ InSdWindow(s)

\* the same for n >= 3, where every accepted state went through the prunes
C1_AcceptedInWindowFromThree ==
    n >= 3 => C1_AcceptedInWindow

\* C2: for n >= 3 the union over all seeds of the sequences dfs_branch
\* returns is exactly the set of non-decreasing sequences of length n over
\* the scale that pass the sum and SD filters.
C2_SearchEqualsBruteForce ==
    (dpc = "done" /\ n >= 3) => Range(out) = BruteForce

C2_Witness ==
    /\ dpc = "done" /\ n >= 3
    /\ Cardinality(Range(out)) >= 2
    /\ Cardinality(Range(out)) < Cardinality(NonDecSeqs(n, min_scale, max_scale))
    /\ \E s \in NonDecSeqs(n, min_scale, max_scale) : InSumWindow(s) /\ ~InSdWindow(s)
    /\ \E s \in NonDecSeqs(n, min_scale, max_scale) : ~InSumWindow(s) /\ InSdWindow(s)

\* C4: every state on the work stack and every sequence of the result
\* batch is non-decreasing, within [min_scale, max_scale] and of length
\* 2..n; every sequence of the result batch has length exactly n.
C4_SequencesWellFormed ==
    /\ \A k \in 1..Len(stack) :
          LET s == stack[k].values
          IN  NonDecreasing(s) /\ InScale(s) /\ 2 <= Len(s) /\ Len(s) <= n
    /\ \A s \in Range(results) \cup Range(out) :
          NonDecreasing(s) /\ InScale(s) /\ Len(s) = n

C4_Witness ==
    /\ Len(stack) >= 2
    /\ \E a, b \in 1..Len(stack) : Len(stack[a].values) < Len(stack[b].values)
    /\ \E k \in 1..Len(stack) : Len(stack[k].values) = n
    /\ results # <<>>
    /\ n >= 4

\* ------------------------------------------ claims about the whole run
AllBranches == 1..Len(initial_combinations)

\* the seeds some closure is running on
InProgress == {wk[w].branch : w \in {v \in Workers : wk[v].pc # "idle"}}

\* the seeds whose closure has returned
Completed == AllBranches \ (pending \cup InProgress \cup aborted)

\* everything written through the shared writer so far, in writing order
Written == DataRows(file) \o wbuf

\* every sequence the searches of this run accept
AllAccepted ==
    UNION {Range(dfs_branch(seed)) :
              seed \in Range(InitialCombinations(min_scale, max_scale))}

HeaderFlushed == pc \in {"bar", "open", "par", "reopen", "read", "done", "panic"}

\* C3: for n = 2 and min_scale = max_scale = m there is exactly one seed
\* [m, m], and after the parallel phase the sink holds the row of [m, m] if
\* [m, m] lies in the sum window and the SD window, and no data row
\* otherwise.
C3_SingleCandidate ==
    (n = 2 /\ min_scale = max_scale /\ pc \in {"reopen", "read", "done"}) =>
       /\ Len(initial_combinations) = 1
       /\ initial_combinations[1].values = <<min_scale, min_scale>>
       /\ DataRows(file) =
             IF InSumWindow(<<min_scale, min_scale>>)
                /\ InSdWindow(<<min_scale, min_scale>>)
             THEN <<Row(<<min_scale, min_scale>>)>>
             ELSE <<>>

\* C5: at most one worker is inside the lock-write-flush section, and the
\* rows of one branch are contiguous in the sink: between two rows of a
\* branch there is no row of another branch.
C5_BatchesContiguous ==
    /\ Cardinality({w \in Workers : wk[w].pc \in {"write", "flush"}}) <= 1
    /\ Cardinality(lock) <= 1
    /\ \A w \in Workers : wk[w].pc \in {"write", "flush"} => lock = {w}
    /\ HeaderFlushed =>
         \A a, b, c \in 1..Len(Written) :
            (a < b /\ b < c /\ SubSeq(Written[a], 1, 2) = SubSeq(Written[c], 1, 2))
               => SubSeq(Written[b], 1, 2) = SubSeq(Written[a], 1, 2)

C5_Witness ==
    /\ \E w, v \in Workers : wk[w].pc = "write" /\ wk[v].pc = "lock"
    /\ Len(Written) >= 2
    /\ \E a, b \in 1..Len(Written) :
          SubSeq(Written[a], 1, 2) # SubSeq(Written[b], 1, 2)

\* C6: the set of data rows in the sink after a completed run is a function
\* of the run parameters alone: it is the set of rows of the sequences
\* accepted over all seeds, whatever the schedule.
C6_RowSetDeterministic ==
    pc = "done" =>
       /\ wbuf = <<>>
       /\ Range(DataRows(file)) = {Row(s) : s \in AllAccepted}

C6_Witness ==
    /\ pc = "done"
    /\ Len(DataRows(file)) >= 3
    /\ SubSeq(DataRows(file)[1], 1, 2) # Row(initial_combinations[1].values)
    /\ dfs_branch(initial_combinations[1]) # <<>>

\* C7: the progress counter equals the number of completed branches in
\* every state, equals range_size * (range_size + 1) / 2 once all branches
\* have completed, and every step leaves it unchanged or adds one to it.
C7_CounterIsCompleted ==
    /\ bar = Cardinality(Completed)
    /\ (pc \in {"reopen", "read", "done"}) =>
          LET range_size == max_scale - min_scale + 1
          IN  /\ Completed = AllBranches
              /\ bar = (range_size * (range_size + 1)) \div 2

C7_ProgressCounter ==
    /\ []C7_CounterIsCompleted
    /\ [][bar' = bar \/ bar' = bar + 1]_vars

C7_Witness ==
    /\ \E w, v \in Workers :
          /\ w # v
          /\ wk[w].pc = "inc" /\ wk[v].pc = "inc"
          /\ dfs_branch(initial_combinations[wk[w].branch]) = <<>>
          /\ dfs_branch(initial_combinations[wk[v].branch]) # <<>>
    /\ bar >= 1

\* C8: a final count is reported only after every branch has completed and
\* flushed its batch, and it equals the number of sequences accepted over
\* all branches, which is the number of data rows in the sink.
C8_FinalCount ==
    count # <<>> =>
       /\ Completed = AllBranches
       /\ wbuf = <<>>
       /\ count[1] = Len(DataRows(file))
       /\ count[1] = Cardinality(AllAccepted)

\* the same when no read error occurs during the read-back
C8_FinalCountWithoutFailure ==
    (count # <<>> /\ ~io_failed) => C8_FinalCount

\* C9: after an I/O failure the run never returns success and never
\* reports a final count.
C9_FailureIsFatal ==
    io_failed => (pc # "done" /\ count = <<>>)

\* the same for the failures before the read-back: they end the run
C9_FailureBeforeReadIsFatal ==
    (io_failed /\ pc \notin {"done"}) => (pc \notin {"reopen", "read"} /\ count = <<>>)

\* C10: count_initial_combinations(min_scale, max_scale) is the number of
\* pairs (i, j) with min_scale <= i <= j <= max_scale, the number of seeds
\* the partitioner generates and the length of the progress bar; for (1, 7)
\* it is 28.
C10_PartitionCount ==
    LET pairs == {p \in (min_scale..max_scale) \X (min_scale..max_scale) : p[1] <= p[2]}
    IN  /\ pc # "main" => initial_count = Cardinality(pairs)
        /\ pc \notin {"main", "partition"} =>
              /\ Len(initial_combinations) = initial_count
              /\ {initial_combinations[k].values : k \in AllBranches} = pairs
        /\ pc \in {"open", "par"} => bar_len = initial_count
        /\ (pc # "main" /\ min_scale = 1 /\ max_scale = 7) => initial_count = 28

C10_Witness ==
    /\ pc = "open"
    /\ min_scale = 1 /\ max_scale = 7
    /\ initial_count = 28
    /\ bar_len = 28

\* C11: dfs_branch terminates: every search that was started reaches an
\* empty stack and returns its result batch, and each pop step removes the
\* popped state and either accepts it, discards it, or replaces it by
\* children that are one element longer.
C11_PopStep ==
    (dpc = "search" /\ stack # <<>>) =>
       LET top == Last(stack)
           rest == SubSeq(stack, 1, Len(stack) - 1)
       IN  /\ Len(stack') >= Len(rest)
           /\ SubSeq(stack', 1, Len(rest)) = rest
           /\ \A k \in (Len(rest) + 1)..Len(stack') :
                 /\ Len(stack'[k].values) = Len(top.values) + 1
                 /\ SubSeq(stack'[k].values, 1, Len(top.values)) = top.values
           /\ Len(top.values) >= n =>
                 /\ stack' = rest
                 /\ results' \in {results, Append(results, top.values)}
           /\ Len(top.values) < n => results' = results

C11_Terminates ==
    /\ (dpc = "search") ~> (dpc = "search" /\ stack = <<>>)
    /\ (dpc = "search" /\ stack = <<>>) ~> (dpc \in {"next", "done"})
    /\ [][C11_PopStep]_vars

C11_Witness ==
    /\ dpc = "done"
    /\ n >= 4
    /\ Len(out) >= 3
    /\ stack = <<>>

\* C12: without I/O failure and under fair scheduling the run completes:
\* eventually every seed has been searched and its closure has returned,
\* with the sink lock free; a seed is taken once (it never returns to the
\* pending set and no two closures run on the same seed), and no worker
\* waits forever for the lock.
C12_TakenOnce ==
    /\ \A w, v \in Workers :
          (w # v /\ wk[w].pc # "idle" /\ wk[v].pc # "idle")
             => wk[w].branch # wk[v].branch
    /\ InProgress \cap pending = {}
    /\ InProgress \cap aborted = {}
    /\ aborted \cap pending = {}
    /\ (pending \cup InProgress \cup aborted) \subseteq AllBranches

C12_RunCompletes ==
    /\ <>(/\ pc = "done"
          /\ Completed = AllBranches
          /\ bar = Len(initial_combinations)
          /\ lock = {})
    /\ \A w \in Workers : (wk[w].pc = "lock") ~> (wk[w].pc = "write")
    /\ []C12_TakenOnce
    /\ [][pc = "par" => pending' \subseteq pending]_vars

C12_Witness ==
    /\ pc = "done"
    /\ ~io_failed
    /\ Completed = AllBranches
    /\ Len(initial_combinations) >= 3
    /\ Len(DataRows(file)) >= 3
    /\ lock = {}

\* C13: after a successful run the sink is one header row n1..nN followed
\* only by rows of sequences accepted in this run (nothing of the prior
\* content is left), each data row with exactly n integer columns; and no
\* data row is written, to the writer's buffer or to the file, before the
\* header has been flushed to the file.
IntegerColumns == {to_string(v) : v \in min_scale..max_scale}

C13_SinkAfterRun ==
    pc = "done" =>
       /\ file # <<>>
       /\ file[1] = Header
       /\ Len(Header) = n
       /\ \A i \in 1..n : Header[i] = "n" \o to_string(i)
       /\ \A k \in 2..Len(file) :
             /\ file[k] \in {Row(s) : s \in AllAccepted}
             /\ Len(file[k]) = n
             /\ \A i \in 1..n : file[k][i] \in IntegerColumns
             /\ file[k] # Header
             /\ file[k] # StaleRow

C13_HeaderFirst ==
    (wbuf # <<>> \/ \E w \in Workers : wk[w].pc \in {"lock", "write", "flush"}) =>
       /\ hbuf = <<>>
       /\ file # <<>>
       /\ file[1] = Header

C13_SinkFormat ==
    /\ []C13_SinkAfterRun
    /\ []C13_HeaderFirst
    /\ [][wbuf' # wbuf => (hbuf = <<>> /\ file # <<>> /\ file[1] = Header)]_vars

C13_Witness ==
    /\ pc = "done"
    /\ ~io_failed
    /\ n = 3
    /\ Len(file) >= 4
    /\ file[1] = Header

\* C14: a branch whose result batch is empty leaves the sink untouched: its
\* worker is never waiting for or holding the sink lock, never writing or
\* flushing, and the steps of its closure change nothing but the progress
\* counter (and the bookkeeping of which seed the worker runs on).
EmptyBatch(b) ==
    b \in AllBranches /\ dfs_branch(initial_combinations[b]) = <<>>

C14_EmptyNeverLocks ==
    \A w \in Workers :
       (wk[w].pc # "idle" /\ EmptyBatch(wk[w].branch)) =>
          /\ wk[w].pc = "inc"
          /\ w \notin lock

C14_EmptyStep ==
    \A w \in Workers :
       (wk'[w] # wk[w]
          /\ EmptyBatch(IF wk[w].pc = "idle" THEN wk'[w].branch ELSE wk[w].branch))
       => /\ UNCHANGED <<file, hbuf, wbuf, lock, poisoned>>
          /\ UNCHANGED <<pc, bar_len, count, aborted, io_failed>>
          /\ bar' \in {bar, bar + 1}
          /\ wk[w].pc = "inc" => bar' = bar + 1

C14_EmptyBatchNoIO ==
    /\ []C14_EmptyNeverLocks
    /\ [][C14_EmptyStep]_vars

C14_Witness ==
    \E w, v \in Workers :
       /\ wk[w].pc = "inc" /\ EmptyBatch(wk[w].branch)
       /\ wk[v].pc = "write" /\ lock = {v}
       /\ Len(DataRows(file)) >= 1

\* C15: for every seed of the partitioner and every state on the work
\* stack, running_sum is the sum of the values and running_m2 is the sum of
\* the squared deviations of the values from their mean, computed directly
\* (exact arithmetic: running_m2 is scaled by M2Den, SumSqDev by Len^2).
StatsExact(state) ==
    LET len == Len(state.values)
    IN  /\ state.running_sum = SeqSum(state.values)
        /\ state.running_m2 * len * len = SumSqDev(state.values) * M2Den

C15_IncrementalStatistics ==
    /\ \A k \in 1..Len(initial_combinations) :
          /\ Len(initial_combinations[k].values) = 2
          /\ StatsExact(initial_combinations[k])
    /\ \A k \in 1..Len(stack) : StatsExact(stack[k])
    /\ \A k \in {j \in 1..Len(stack) : Len(stack[j].values) < n} :
          \A c \in Last(stack[k].values)..max_scale :
             StatsExact([values |-> Append(stack[k].values, c),
                         running_sum |-> stack[k].running_sum + c,
                         running_m2 |-> NextM2(stack[k], c)])

C15_Witness ==
    /\ n >= 5
    /\ \E k \in 1..Len(stack) :
          /\ Len(stack[k].values) >= 4
          /\ stack[k].running_m2 > 0
          /\ stack[k].values[1] < stack[k].values[2]
          /\ stack[k].values[3] < stack[k].values[4]

\* C16: M2 does not decrease under extension: for every state on the stack
\* that is extended and every candidate c in [last, max_scale],
\* next_m2 >= running_m2; the M2 of every completion of the extended prefix
\* is at least next_m2, and a candidate skipped by the SD prune of l.87-90
\* has no completion inside the SD window.
Extensible == {k \in 1..Len(stack) : Len(stack[k].values) < n}

Completions(values, c) ==
    {Append(values, c) \o t : t \in NonDecSeqs(n - Len(values) - 1, c, max_scale)}

C16_M2Monotone ==
    \A k \in Extensible :
       \A c \in Last(stack[k].values)..max_scale :
          LET next_m2 == NextM2(stack[k], c)
          IN  /\ next_m2 >= stack[k].running_m2
              /\ \A full \in Completions(stack[k].values, c) :
                    /\ Len(full) = n
                    /\ SumSqDev(full) * M2Den >= next_m2 * n * n
                    /\ SqrtGt(next_m2, n_1, target_sd_upper) => ~InSdWindow(full)

C16_Witness ==
    \E k \in Extensible :
       \E c \in Last(stack[k].values)..max_scale :
          /\ Len(stack[k].values) + 2 <= n
          /\ NextM2(stack[k], c) > stack[k].running_m2
          /\ stack[k].running_m2 > 0
          /\ SqrtGt(NextM2(stack[k], c), n_1, target_sd_upper)
          /\ \E d \in Last(stack[k].values)..max_scale :
                ~SqrtGt(NextM2(stack[k], d), n_1, target_sd_upper)

\* C17: a worker holds the sink lock only while it writes and flushes its
\* own non-empty batch: a worker that is about to advance the progress
\* counter, is about to start another search, has finished, or is still
\* waiting for the lock does not hold it, also after a panic inside the
\* locked section.
C17_LockOnlyWhileWriting ==
    /\ \A w \in Workers :
          wk[w].pc \in {"idle", "inc", "lock"} => w \notin lock
    /\ \A w \in lock :
          /\ wk[w].pc \in {"write", "flush"}
          /\ wk[w].branch \in AllBranches
          /\ dfs_branch(initial_combinations[wk[w].branch]) # <<>>
          /\ wk[w].pc = "write" => wk[w].results # <<>>
    /\ pc \notin {"par"} => lock = {}

C17_Witness ==
    \E w, v \in Workers :
       /\ wk[w].pc = "inc"
       /\ dfs_branch(initial_combinations[wk[w].branch]) # <<>>
       /\ wk[v].pc = "flush"
       /\ lock = {v}
       /\ Len(DataRows(file)) >= 1

C17_PanicWitness ==
    /\ poisoned
    /\ lock = {}
    /\ \E w \in Workers : wk[w].pc = "idle" /\ aborted # {}

\* C18: no sequence is written to the sink twice: the result batch of a
\* seed holds each accepted sequence once, the batches of two different
\* seeds share no sequence, different sequences give different rows, and
\* the data rows written so far, and the data rows of the sink after the
\* run, are pairwise distinct.
NoDuplicates(seq) == \A a, b \in 1..Len(seq) : a # b => seq[a] # seq[b]

BatchOf(k) == dfs_branch(initial_combinations[k])

C18_NoDuplicateRows ==
    /\ \A k \in AllBranches : NoDuplicates(BatchOf(k))
    /\ \A k, j \in AllBranches :
          k # j => Range(BatchOf(k)) \cap Range(BatchOf(j)) = {}
    /\ \A s, t \in AllAccepted : Row(s) = Row(t) => s = t
    /\ HeaderFlushed => NoDuplicates(Written)
    /\ pc = "done" =>
          /\ NoDuplicates(DataRows(file))
          /\ Len(DataRows(file)) = Cardinality(AllAccepted)

C18_Witness ==
    /\ pc = "done"
    /\ Len(DataRows(file)) >= 3
    /\ \E k, j \in AllBranches :
          k # j /\ Len(BatchOf(k)) >= 2 /\ Len(BatchOf(j)) >= 1

\* C19: whenever a state is extended (length < n, hence n >= 3),
\* n_left = n_1 - length does not underflow and lies in 0..n-3, it is the
\* number of positions left after the extension, it is an index of the
\* n-entry tables min_scale_sum and max_scale_sum, and the entries read are
\* min_scale * n_left and max_scale * n_left.
C19_TableAccessInRange ==
    /\ DOMAIN min_scale_sum = 0..(n - 1)
    /\ DOMAIN max_scale_sum = 0..(n - 1)
    /\ \A k \in Extensible :
          LET len == Len(stack[k].values)
              n_left == n_1 - len
          IN  /\ n >= 3
              /\ n_1 >= len
              /\ 0 <= n_left /\ n_left <= n - 3
              /\ n_left = n - (len + 1)
              /\ n_left \in DOMAIN min_scale_sum
              /\ n_left \in DOMAIN max_scale_sum
              /\ min_scale_sum[n_left] = min_scale * n_left
              /\ max_scale_sum[n_left] = max_scale * n_left

C19_Witness ==
    /\ n = 5
    /\ min_scale < max_scale
    /\ \E a, b \in Extensible :
          /\ n_1 - Len(stack[a].values) = 1
          /\ n_1 - Len(stack[b].values) = 0
    /\ results # <<>>

\* C20: each step pops the most recently pushed state (the last of the
\* stack) and pushes the surviving candidates in increasing order, and the
\* result batch of a search lists its accepted sequences in strictly
\* decreasing lexicographic order; the rows of a batch are written to the
\* sink in the order of the batch.
LexLess(a, b) ==
    \E i \in 1..Len(a) :
       /\ i <= Len(b)
       /\ a[i] < b[i]
       /\ \A j \in 1..(i - 1) : a[j] = b[j]

StrictlyDecreasing(seq) ==
    \A k \in 1..(Len(seq) - 1) : LexLess(seq[k + 1], seq[k])

C20_PopLastPushIncreasing ==
    (dpc = "search" /\ stack # <<>>) =>
       LET top == Last(stack)
           base == Len(stack) - 1
       IN  /\ Len(stack') >= base
           /\ SubSeq(stack', 1, base) = SubSeq(stack, 1, base)
           /\ \A k \in (base + 1)..Len(stack') :
                 Last(stack'[k].values) >= Last(top.values)
           /\ \A k \in (base + 1)..(Len(stack') - 1) :
                 Last(stack'[k].values) < Last(stack'[k + 1].values)
           /\ results' # results => results' = Append(results, top.values)

C20_BatchOrder ==
    /\ []StrictlyDecreasing(results)
    /\ [][C20_PopLastPushIncreasing]_vars

C20_Witness ==
    /\ dpc = "search"
    /\ Len(results) >= 3
    /\ results[1][3] > results[3][3]
    /\ stack # <<>>

\* the rows of a closure's batch go to the sink in the order of the batch
C20_SinkOrder ==
    \A w \in Workers :
       wk[w].pc \in {"write", "flush"} =>
          /\ StrictlyDecreasing(BatchOf(wk[w].branch))
          /\ LET batch == BatchOf(wk[w].branch)
                  done == Len(batch) - Len(wk[w].results)
              IN  /\ wk[w].results = SubSeq(batch, done + 1, Len(batch))
                  /\ Len(Written) >= done
                  /\ SubSeq(Written, Len(Written) - done + 1, Len(Written))
                        = [i \in 1..done |-> Row(batch[i])]

====
